---- MODULE Spec2Model ----
(***************************************************************************)
(* The XYK runtime module of kaupangdx/dex-runtime (src/runtime/XYK.ts):   *)
(* pool identity, the reserve arithmetic and the three runtime methods     *)
(* createPool, sell and buy, executed one transaction at a time.           *)
(*                                                                         *)
(* A runtime method runs to its end inside an execution context.  assert   *)
(* does not stop the method: it ands its condition into the context's      *)
(* status and keeps the first message.  The state changes of a method are  *)
(* applied only when the final status is true.  An arithmetic fault        *)
(* (division by zero) throws and ends the method without any effect.       *)
(***************************************************************************)
EXTENDS Integers, FiniteSets, Sequences, TLC

\* ------------------------------------------------------------------ bounds
\* largest amount passed as an argument of a call
MaxAmount == 2
\* number of transactions of one behaviour
MaxOps == 3
\* what alice holds of every token at the start (the test mints 10000); the
\* second sender starts with one unit of every token
balanceToMint == 3

\* the reserves and the amounts the reserve arithmetic is applied to on its own
MaxReserve == 3
MaxCalcAmount == 4

\* the token ids of the test
Tokens == {0, 1}
Amounts == 0 .. MaxAmount

\* transaction senders: alice of the test and a second account
alice == 1
Senders == {alice, alice + 1}

\* --------------------------------------------------------------- messages
errors ==
  [ poolExists           |-> "Pool already exists",
    tokensMatch          |-> "Cannot create pool with matching tokens",
    tokenOutAmountTooLow |-> "Token out amount too low",
    tokenInAmountTooHigh |-> "Token in amount too high" ]

\* the message of an assert called without one
undefined == "undefined"
\* the ledger's failure of a transfer whose source lacks funds
InsufficientBalance == "InsufficientBalance"
\* the fault thrown by a division whose divisor is zero
DivisionByZero == "Division by zero"

\* --------------------------------------------------------------- identity
\* TokenPair.from, without the exchange of the two ids
TokenPair_from_unordered(tokenInId, tokenOutId) == <<tokenInId, tokenOutId>>

\* TokenPair.from, the condition of the exchange the other way round
TokenPair_from_smallerFirst(tokenInId, tokenOutId) ==
  IF tokenInId < tokenOutId
    THEN <<tokenInId, tokenOutId>>
    ELSE <<tokenOutId, tokenInId>>

\* Provable.if(tokenInId > tokenOutId, {in, out}, {out, in}): larger id first
TokenPair_from(tokenInId, tokenOutId) ==
  IF tokenInId > tokenOutId
    THEN <<tokenInId, tokenOutId>>
    ELSE <<tokenOutId, tokenInId>>

\* Poseidon over the two fields of a pair, as an injective code of the pair
Poseidon_hash(fields) == (10 * (fields[1] + 1)) + fields[2]

\* the account of a pool: hashToGroup of the canonical pair; the codes of
\* pool accounts (100 and up) are disjoint from the sender accounts
PoolKey_fromTokenIdPair(tokenInId, tokenOutId) ==
  100 + Poseidon_hash(TokenPair_from(tokenInId, tokenOutId))

\* the LP token of a pair: the scalar hash of the canonical pair; the codes
\* of LP tokens (10 and up) are disjoint from the ids in Tokens
LPTokenId_fromTokenIdPair(tokenInId, tokenOutId) ==
  Poseidon_hash(TokenPair_from(tokenInId, tokenOutId))

PoolKeys == {PoolKey_fromTokenIdPair(a, b) : a \in Tokens, b \in Tokens}
LPTokenIds == {LPTokenId_fromTokenIdPair(a, b) : a \in Tokens, b \in Tokens}
TokenIds == Tokens \cup LPTokenIds
Accounts == Senders \cup PoolKeys

\* ------------------------------------------------------------------ state
VARIABLES
  pools,     \* the keys of the StateMap pools that hold a value
  balances,  \* the ledger: [<<tokenId, address>> -> Balance]
  last,      \* the last transaction: its call, its outcome, the state before
  created,   \* per unordered pair, the number of createPool calls that succeeded
  lpMinted,  \* per unordered pair, the tokenIn seed of the createPool that succeeded
  nOps,      \* the number of transactions so far
  calc       \* the arguments and results of the reserve arithmetic on its own

vars == <<pools, balances, last, created, lpMinted, nOps, calc>>

\* ------------------------------------------------------ execution context
\* a fresh context over the state the transaction starts from
Context(p, b) ==
  [ status |-> TRUE, message |-> undefined, pools |-> p, balances |-> b,
    divisionByZero |-> FALSE, negative |-> FALSE ]

\* assert(condition, message): status := status && condition; the first
\* message of a failed assert is kept (statusMessage ??= message)
assert(ctx, condition, message) ==
  [ctx EXCEPT !.status = @ /\ condition,
              !.message = IF (~condition) /\ @ = undefined THEN message ELSE @]

\* ----------------------------------------------------------------- ledger
getBalance(b, tokenId, address) == b[<<tokenId, address>>]

\* transfer: fails with InsufficientBalance when from holds less than amount,
\* otherwise debits from and credits to
transfer(ctx, tokenId, from, to, amount) ==
  LET fromBalanceIsSufficient == getBalance(ctx.balances, tokenId, from) >= amount
      checked == assert(ctx, fromBalanceIsSufficient, InsufficientBalance)
  IN  IF fromBalanceIsSufficient
        THEN [checked EXCEPT !.balances =
                [@ EXCEPT ![<<tokenId, from>>] = @ - amount,
                          ![<<tokenId, to>>] = @ + amount]]
        ELSE checked

\* mint: credits to; always succeeds
mint(ctx, tokenId, to, amount) ==
  [ctx EXCEPT !.balances = [@ EXCEPT ![<<tokenId, to>>] = @ + amount]]

\* ------------------------------------------------------------- arithmetic
\* Balance.div: truncating division; a zero divisor is a fault
UInt64_div(x, y) ==
  [value |-> IF y = 0 THEN 0 ELSE x \div y, divisionByZero |-> y = 0]

\* Balance.sub: a result below zero is outside the domain
UInt64_sub(x, y) == [value |-> x - y, negative |-> x < y]

\* -------------------------------------------------------------------- XYK
poolExists(ctx, tokenInId, tokenOutId) ==
  PoolKey_fromTokenIdPair(tokenInId, tokenOutId) \in ctx.pools

assertPoolExists(ctx, tokenInId, tokenOutId) ==
  assert(ctx, poolExists(ctx, tokenInId, tokenOutId), errors.poolExists)

\* createPool, the outcome of the second seed transfer dropped
createPool_secondSeedUnchecked(ctx, sender, tokenInId, tokenOutId, tokenInAmount, tokenOutAmount) ==
  LET c1 == assert(ctx, tokenInId # tokenOutId, errors.tokensMatch)
      c2 == assert(c1, ~poolExists(c1, tokenInId, tokenOutId), errors.poolExists)
      key == PoolKey_fromTokenIdPair(tokenInId, tokenOutId)
      c3 == [c2 EXCEPT !.pools = @ \cup {key}]
      c4 == transfer(c3, tokenInId, sender, key, tokenInAmount)
      c5 == [transfer(c4, tokenOutId, sender, key, tokenOutAmount)
               EXCEPT !.status = c4.status, !.message = c4.message]
  IN  mint(c5, LPTokenId_fromTokenIdPair(tokenInId, tokenOutId), sender, tokenInAmount)

\* createPool, minting the tokenOut seed instead of the tokenIn seed
createPool_mintsTokenOutSeed(ctx, sender, tokenInId, tokenOutId, tokenInAmount, tokenOutAmount) ==
  LET c1 == assert(ctx, tokenInId # tokenOutId, errors.tokensMatch)
      c2 == assert(c1, ~poolExists(c1, tokenInId, tokenOutId), errors.poolExists)
      key == PoolKey_fromTokenIdPair(tokenInId, tokenOutId)
      c3 == [c2 EXCEPT !.pools = @ \cup {key}]
      c4 == transfer(c3, tokenInId, sender, key, tokenInAmount)
      c5 == transfer(c4, tokenOutId, sender, key, tokenOutAmount)
  IN  mint(c5, LPTokenId_fromTokenIdPair(tokenInId, tokenOutId), sender, tokenOutAmount)

\* createPool, without the check that the two tokens differ
createPool_sameTokensAllowed(ctx, sender, tokenInId, tokenOutId, tokenInAmount, tokenOutAmount) ==
  LET c2 == assert(ctx, ~poolExists(ctx, tokenInId, tokenOutId), errors.poolExists)
      key == PoolKey_fromTokenIdPair(tokenInId, tokenOutId)
      c3 == [c2 EXCEPT !.pools = @ \cup {key}]
      c4 == transfer(c3, tokenInId, sender, key, tokenInAmount)
      c5 == transfer(c4, tokenOutId, sender, key, tokenOutAmount)
  IN  mint(c5, LPTokenId_fromTokenIdPair(tokenInId, tokenOutId), sender, tokenInAmount)

\* createPool, the new marker put in place of the markers there are
createPool_markersReplaced(ctx, sender, tokenInId, tokenOutId, tokenInAmount, tokenOutAmount) ==
  LET c1 == assert(ctx, tokenInId # tokenOutId, errors.tokensMatch)
      c2 == assert(c1, ~poolExists(c1, tokenInId, tokenOutId), errors.poolExists)
      key == PoolKey_fromTokenIdPair(tokenInId, tokenOutId)
      c3 == [c2 EXCEPT !.pools = {key}]
      c4 == transfer(c3, tokenInId, sender, key, tokenInAmount)
      c5 == transfer(c4, tokenOutId, sender, key, tokenOutAmount)
  IN  mint(c5, LPTokenId_fromTokenIdPair(tokenInId, tokenOutId), sender, tokenInAmount)

\* createPool, the LP token minted to the pool account and not to the creator
createPool_lpToPool(ctx, sender, tokenInId, tokenOutId, tokenInAmount, tokenOutAmount) ==
  LET c1 == assert(ctx, tokenInId # tokenOutId, errors.tokensMatch)
      c2 == assert(c1, ~poolExists(c1, tokenInId, tokenOutId), errors.poolExists)
      key == PoolKey_fromTokenIdPair(tokenInId, tokenOutId)
      c3 == [c2 EXCEPT !.pools = @ \cup {key}]
      c4 == transfer(c3, tokenInId, sender, key, tokenInAmount)
      c5 == transfer(c4, tokenOutId, sender, key, tokenOutAmount)
  IN  mint(c5, LPTokenId_fromTokenIdPair(tokenInId, tokenOutId), key, tokenInAmount)

createPool(ctx, sender, tokenInId, tokenOutId, tokenInAmount, tokenOutAmount) ==
  LET c1 == assert(ctx, tokenInId # tokenOutId, errors.tokensMatch)
      c2 == assert(c1, ~poolExists(c1, tokenInId, tokenOutId), errors.poolExists)
      key == PoolKey_fromTokenIdPair(tokenInId, tokenOutId)
      c3 == [c2 EXCEPT !.pools = @ \cup {key}]
      creator == sender
      pool == PoolKey_fromTokenIdPair(tokenInId, tokenOutId)
      c4 == transfer(c3, tokenInId, creator, pool, tokenInAmount)
      c5 == transfer(c4, tokenOutId, creator, pool, tokenOutAmount)
      lpTokenId == LPTokenId_fromTokenIdPair(tokenInId, tokenOutId)
  IN  mint(c5, lpTokenId, creator, tokenInAmount)

\* calculateTokenOutAmountFromReserves, the two reserves exchanged
calculateTokenOutAmountFromReserves_reservesExchanged(ctx, tokenInReserve, tokenOutReserve, tokenInAmount) ==
  LET numerator == tokenInReserve * tokenInAmount
      denominator == tokenOutReserve + tokenInAmount
      quotient == UInt64_div(numerator, denominator)
  IN  [ ctx |-> [ctx EXCEPT !.divisionByZero = @ \/ quotient.divisionByZero],
        value |-> quotient.value ]

\* calculateTokenOutAmountFromReserves, the amount sold left out of the
\* numerator
calculateTokenOutAmountFromReserves_amountNotMultiplied(ctx, tokenInReserve, tokenOutReserve, tokenInAmount) ==
  LET numerator == tokenOutReserve
      denominator == tokenInReserve + tokenInAmount
      quotient == UInt64_div(numerator, denominator)
  IN  [ ctx |-> [ctx EXCEPT !.divisionByZero = @ \/ quotient.divisionByZero],
        value |-> quotient.value ]

\* calculateTokenOutAmountFromReserves, the amount sold left out of the
\* denominator
calculateTokenOutAmountFromReserves_reserveOnly(ctx, tokenInReserve, tokenOutReserve, tokenInAmount) ==
  LET numerator == tokenOutReserve * tokenInAmount
      denominator == tokenInReserve
      quotient == UInt64_div(numerator, denominator)
  IN  [ ctx |-> [ctx EXCEPT !.divisionByZero = @ \/ quotient.divisionByZero],
        value |-> quotient.value ]

\* the context after the call and the amount returned
calculateTokenOutAmountFromReserves(ctx, tokenInReserve, tokenOutReserve, tokenInAmount) ==
  LET numerator == tokenOutReserve * tokenInAmount
      denominator == tokenInReserve + tokenInAmount
      quotient == UInt64_div(numerator, denominator)
  IN  [ ctx |-> [ctx EXCEPT !.divisionByZero = @ \/ quotient.divisionByZero],
        value |-> quotient.value ]

calculateTokenOutAmount(ctx, tokenInId, tokenOutId, tokenInAmount) ==
  LET pool == PoolKey_fromTokenIdPair(tokenInId, tokenOutId)
      tokenInReserve == getBalance(ctx.balances, tokenInId, pool)
      tokenOutReserve == getBalance(ctx.balances, tokenOutId, pool)
  IN  calculateTokenOutAmountFromReserves(
        ctx, tokenInReserve, tokenOutReserve, tokenInAmount)

\* calculateTokenInAmountFromReserves, dividing by the reserve before the
\* requested amount is taken out of it
calculateTokenInAmountFromReserves_fullReserve(ctx, tokenInReserve, tokenOutReserve, tokenOutAmount) ==
  LET numerator == tokenInReserve * tokenOutAmount
      denominator == tokenOutReserve
      denominatorIsSafe == denominator > 0
      safeDenominator == IF denominatorIsSafe THEN denominator ELSE 1
      c1 == assert(ctx, denominatorIsSafe, undefined)
      quotient == UInt64_div(numerator, safeDenominator)
  IN  [ ctx |-> [c1 EXCEPT !.divisionByZero = @ \/ quotient.divisionByZero],
        value |-> quotient.value ]

\* calculateTokenInAmountFromReserves, a denominator of zero taken as safe
calculateTokenInAmountFromReserves_zeroAllowed(ctx, tokenInReserve, tokenOutReserve, tokenOutAmount) ==
  LET paddedTokenOutReserve == tokenOutReserve + tokenOutAmount
      tokenOutReserveIsSufficient == tokenOutReserve >= tokenOutAmount
      safeTokenOutReserve ==
        IF tokenOutReserveIsSufficient
          THEN tokenOutReserve
          ELSE paddedTokenOutReserve
      numerator == tokenInReserve * tokenOutAmount
      denominator == UInt64_sub(safeTokenOutReserve, tokenOutAmount)
      denominatorIsSafe == denominator.value >= 0
      safeDenominator == IF denominator.value > 0 THEN denominator.value ELSE 1
      c1 == assert(ctx, denominatorIsSafe, undefined)
      quotient == UInt64_div(numerator, safeDenominator)
  IN  [ ctx |-> [c1 EXCEPT !.negative = @ \/ denominator.negative,
                           !.divisionByZero = @ \/ quotient.divisionByZero],
        value |-> quotient.value ]

calculateTokenInAmountFromReserves(ctx, tokenInReserve, tokenOutReserve, tokenOutAmount) ==
  LET paddedTokenOutReserve == tokenOutReserve + tokenOutAmount
      tokenOutReserveIsSufficient == tokenOutReserve >= tokenOutAmount
      safeTokenOutReserve ==
        IF tokenOutReserveIsSufficient
          THEN tokenOutReserve
          ELSE paddedTokenOutReserve
      numerator == tokenInReserve * tokenOutAmount
      denominator == UInt64_sub(safeTokenOutReserve, tokenOutAmount)
      denominatorIsSafe == denominator.value > 0
      safeDenominator == IF denominatorIsSafe THEN denominator.value ELSE 1
      c1 == assert(ctx, denominatorIsSafe, undefined)
      quotient == UInt64_div(numerator, safeDenominator)
  IN  [ ctx |-> [c1 EXCEPT !.negative = @ \/ denominator.negative,
                           !.divisionByZero = @ \/ quotient.divisionByZero],
        value |-> quotient.value ]

calculateTokenInAmount(ctx, tokenInId, tokenOutId, tokenOutAmount) ==
  LET pool == PoolKey_fromTokenIdPair(tokenInId, tokenOutId)
      tokenInReserve == getBalance(ctx.balances, tokenInId, pool)
      tokenOutReserve == getBalance(ctx.balances, tokenOutId, pool)
  IN  calculateTokenInAmountFromReserves(
        ctx, tokenInReserve, tokenOutReserve, tokenOutAmount)

\* sell, without the check of the minimum
sell_minimumUnchecked(ctx, sender, tokenInId, tokenOutId, tokenInAmount, minTokenOutAmount) ==
  LET c1 == assertPoolExists(ctx, tokenInId, tokenOutId)
      pool == PoolKey_fromTokenIdPair(tokenInId, tokenOutId)
      tokenOutAmount == calculateTokenOutAmount(c1, tokenInId, tokenOutId, tokenInAmount)
      c3 == transfer(tokenOutAmount.ctx, tokenInId, sender, pool, tokenInAmount)
  IN  IF tokenOutAmount.ctx.divisionByZero
        THEN tokenOutAmount.ctx
        ELSE transfer(c3, tokenOutId, pool, sender, tokenOutAmount.value)

\* sell, the amount bought minted to the sender and not taken from the pool
sell_payoutMinted(ctx, sender, tokenInId, tokenOutId, tokenInAmount, minTokenOutAmount) ==
  LET c1 == assertPoolExists(ctx, tokenInId, tokenOutId)
      pool == PoolKey_fromTokenIdPair(tokenInId, tokenOutId)
      tokenOutAmount == calculateTokenOutAmount(c1, tokenInId, tokenOutId, tokenInAmount)
      isTokenOutAmountSufficient == tokenOutAmount.value >= minTokenOutAmount
      c2 == assert(tokenOutAmount.ctx, isTokenOutAmountSufficient,
                   errors.tokenOutAmountTooLow)
      c3 == transfer(c2, tokenInId, sender, pool, tokenInAmount)
  IN  IF tokenOutAmount.ctx.divisionByZero
        THEN tokenOutAmount.ctx
        ELSE mint(c3, tokenOutId, sender, tokenOutAmount.value)

sell(ctx, sender, tokenInId, tokenOutId, tokenInAmount, minTokenOutAmount) ==
  LET c1 == assertPoolExists(ctx, tokenInId, tokenOutId)
      pool == PoolKey_fromTokenIdPair(tokenInId, tokenOutId)
      tokenOutAmount == calculateTokenOutAmount(c1, tokenInId, tokenOutId, tokenInAmount)
      isTokenOutAmountSufficient == tokenOutAmount.value >= minTokenOutAmount
      c2 == assert(tokenOutAmount.ctx, isTokenOutAmountSufficient,
                   errors.tokenOutAmountTooLow)
      c3 == transfer(c2, tokenInId, sender, pool, tokenInAmount)
  IN  IF tokenOutAmount.ctx.divisionByZero
        THEN tokenOutAmount.ctx
        ELSE transfer(c3, tokenOutId, pool, sender, tokenOutAmount.value)

\* buy, the maximum compared the wrong way round
buy_maximumInverted(ctx, sender, tokenInId, tokenOutId, tokenOutAmount, maxTokenInAmount) ==
  LET c1 == assertPoolExists(ctx, tokenInId, tokenOutId)
      pool == PoolKey_fromTokenIdPair(tokenInId, tokenOutId)
      tokenInAmount == calculateTokenInAmount(c1, tokenInId, tokenOutId, tokenOutAmount)
      isMaxTokenInAmountSufficient == tokenInAmount.value >= maxTokenInAmount
      c2 == assert(tokenInAmount.ctx, isMaxTokenInAmountSufficient,
                   errors.tokenInAmountTooHigh)
      c3 == transfer(c2, tokenOutId, pool, sender, tokenOutAmount)
  IN  IF tokenInAmount.ctx.divisionByZero
        THEN tokenInAmount.ctx
        ELSE transfer(c3, tokenInId, sender, pool, tokenInAmount.value)

\* buy, the amount bought minted to the sender and not taken from the pool
buy_payoutMinted(ctx, sender, tokenInId, tokenOutId, tokenOutAmount, maxTokenInAmount) ==
  LET c1 == assertPoolExists(ctx, tokenInId, tokenOutId)
      pool == PoolKey_fromTokenIdPair(tokenInId, tokenOutId)
      tokenInAmount == calculateTokenInAmount(c1, tokenInId, tokenOutId, tokenOutAmount)
      isMaxTokenInAmountSufficient == tokenInAmount.value <= maxTokenInAmount
      c2 == assert(tokenInAmount.ctx, isMaxTokenInAmountSufficient,
                   errors.tokenInAmountTooHigh)
      c3 == mint(c2, tokenOutId, sender, tokenOutAmount)
  IN  IF tokenInAmount.ctx.divisionByZero
        THEN tokenInAmount.ctx
        ELSE transfer(c3, tokenInId, sender, pool, tokenInAmount.value)

buy(ctx, sender, tokenInId, tokenOutId, tokenOutAmount, maxTokenInAmount) ==
  LET c1 == assertPoolExists(ctx, tokenInId, tokenOutId)
      pool == PoolKey_fromTokenIdPair(tokenInId, tokenOutId)
      tokenInAmount == calculateTokenInAmount(c1, tokenInId, tokenOutId, tokenOutAmount)
      isMaxTokenInAmountSufficient == tokenInAmount.value <= maxTokenInAmount
      c2 == assert(tokenInAmount.ctx, isMaxTokenInAmountSufficient,
                   errors.tokenInAmountTooHigh)
      c3 == transfer(c2, tokenOutId, pool, sender, tokenOutAmount)
  IN  IF tokenInAmount.ctx.divisionByZero
        THEN tokenInAmount.ctx
        ELSE transfer(c3, tokenInId, sender, pool, tokenInAmount.value)

\* ---------------------------------------------------------------- runtime
\* one transaction: the method has run to ctx; its state changes are applied
\* only when no assert failed and nothing was thrown.  A behaviour is not
\* continued after a failed transaction: it has applied nothing, so what can
\* follow it is what can follow the transaction before it
Execute(op, sender, tokenInId, tokenOutId, amountA, amountB, ctx) ==
  LET thrown == ctx.divisionByZero
      ok == ctx.status /\ ~thrown
  IN  /\ nOps < MaxOps
      /\ last.status
      /\ nOps' = nOps + 1
      /\ pools' = IF ok THEN ctx.pools ELSE pools
      /\ balances' = IF ok THEN ctx.balances ELSE balances
      /\ created' = IF ok /\ op = "createPool"
                      THEN [created EXCEPT ![{tokenInId, tokenOutId}] = @ + 1]
                      ELSE created
      /\ lpMinted' = IF ok /\ op = "createPool"
                       THEN [lpMinted EXCEPT ![{tokenInId, tokenOutId}] = amountA]
                       ELSE lpMinted
      /\ UNCHANGED calc
      /\ last' = [ op |-> op, sender |-> sender,
                   tokenInId |-> tokenInId, tokenOutId |-> tokenOutId,
                   amountA |-> amountA, amountB |-> amountB,
                   status |-> ok,
                   message |-> IF thrown THEN DivisionByZero ELSE ctx.message,
                   divisionByZero |-> ctx.divisionByZero,
                   negative |-> ctx.negative,
                   pools |-> pools, balances |-> balances ]

\* no arithmetic applied on its own
NoCalc ==
  [ applied |-> "none", tokenInReserve |-> 0, tokenOutReserve |-> 0,
    amount1 |-> 0, amount2 |-> 0,
    value1 |-> 0, value2 |-> 0, status1 |-> TRUE, status2 |-> TRUE,
    thrown1 |-> FALSE, thrown2 |-> FALSE, negative |-> FALSE ]

Init ==
  /\ pools = {}
  /\ balances =
       [k \in TokenIds \X Accounts |->
          IF k[1] \in Tokens /\ k[2] = alice THEN balanceToMint
          ELSE IF k[1] \in Tokens /\ k[2] \in Senders THEN 1
          ELSE 0]
  /\ created = [k \in {{a, b} : a \in Tokens, b \in Tokens} |-> 0]
  /\ lpMinted = [k \in {{a, b} : a \in Tokens, b \in Tokens} |-> 0]
  /\ calc = NoCalc
  /\ nOps = 0
  /\ last = [ op |-> "none", sender |-> alice, tokenInId |-> 0, tokenOutId |-> 0,
              amountA |-> 0, amountB |-> 0, status |-> TRUE, message |-> undefined,
              divisionByZero |-> FALSE, negative |-> FALSE,
              pools |-> {}, balances |-> balances ]

CreatePoolTx ==
  \E sender \in Senders, tokenInId \in Tokens, tokenOutId \in Tokens,
     tokenInAmount \in Amounts, tokenOutAmount \in Amounts :
    Execute("createPool", sender, tokenInId, tokenOutId, tokenInAmount, tokenOutAmount,
            createPool(Context(pools, balances), sender, tokenInId, tokenOutId,
                       tokenInAmount, tokenOutAmount))

SellTx ==
  \E sender \in Senders, tokenInId \in Tokens, tokenOutId \in Tokens,
     tokenInAmount \in Amounts, minTokenOutAmount \in Amounts :
    Execute("sell", sender, tokenInId, tokenOutId, tokenInAmount, minTokenOutAmount,
            sell(Context(pools, balances), sender, tokenInId, tokenOutId,
                 tokenInAmount, minTokenOutAmount))

BuyTx ==
  \E sender \in Senders, tokenInId \in Tokens, tokenOutId \in Tokens,
     tokenOutAmount \in Amounts, maxTokenInAmount \in Amounts :
    Execute("buy", sender, tokenInId, tokenOutId, tokenOutAmount, maxTokenInAmount,
            buy(Context(pools, balances), sender, tokenInId, tokenOutId,
                tokenOutAmount, maxTokenInAmount))

Next == CreatePoolTx \/ SellTx \/ BuyTx

Spec == Init /\ [][Next]_vars

\* ------------------------------------------- three tokens, three pools
\* The same methods over a third token id, so that a call on one pool runs
\* next to the other pools; alice is the only sender (the second account holds
\* its balances and does not act), the amounts are the least positive one
\* and the largest, and the limits of sell and buy are the ones that accept
\* every price alice can pay.
Tokens3 == Tokens \cup {2}
Amounts3 == {1, MaxAmount}
Pairs3 == {{a, b} : a \in Tokens3, b \in Tokens3}
PoolKeys3 == {PoolKey_fromTokenIdPair(a, b) : a \in Tokens3, b \in Tokens3}
LPTokenIds3 == {LPTokenId_fromTokenIdPair(a, b) : a \in Tokens3, b \in Tokens3}

Init3 ==
  /\ pools = {}
  /\ balances =
       [k \in (Tokens3 \cup LPTokenIds3) \X (Senders \cup PoolKeys3) |->
          IF k[1] \in Tokens3 /\ k[2] = alice THEN balanceToMint
          ELSE IF k[1] \in Tokens3 /\ k[2] \in Senders THEN 1
          ELSE 0]
  /\ created = [k \in Pairs3 |-> 0]
  /\ lpMinted = [k \in Pairs3 |-> 0]
  /\ calc = NoCalc
  /\ nOps = 0
  /\ last = [ op |-> "none", sender |-> alice, tokenInId |-> 0, tokenOutId |-> 0,
              amountA |-> 0, amountB |-> 0, status |-> TRUE, message |-> undefined,
              divisionByZero |-> FALSE, negative |-> FALSE,
              pools |-> {}, balances |-> balances ]

CreatePoolTx3 ==
  \E tokenInId \in Tokens3, tokenOutId \in Tokens3,
     tokenInAmount \in Amounts3, tokenOutAmount \in Amounts3 :
    Execute("createPool", alice, tokenInId, tokenOutId, tokenInAmount,
            tokenOutAmount,
            createPool(Context(pools, balances), alice, tokenInId, tokenOutId,
                       tokenInAmount, tokenOutAmount))

SellTx3 ==
  \E tokenInId \in Tokens3, tokenOutId \in Tokens3, tokenInAmount \in Amounts3 :
    Execute("sell", alice, tokenInId, tokenOutId, tokenInAmount, 0,
            sell(Context(pools, balances), alice, tokenInId, tokenOutId,
                 tokenInAmount, 0))

BuyTx3 ==
  \E tokenInId \in Tokens3, tokenOutId \in Tokens3, tokenOutAmount \in Amounts3 :
    Execute("buy", alice, tokenInId, tokenOutId, tokenOutAmount, balanceToMint,
            buy(Context(pools, balances), alice, tokenInId, tokenOutId,
                tokenOutAmount, balanceToMint))

Next3 == CreatePoolTx3 \/ SellTx3 \/ BuyTx3

Spec3 == Init3 /\ [][Next3]_vars

\* ------------------------------------------ the reserve arithmetic alone
\* The two ...FromReserves methods are public and take the reserves as
\* arguments: here each is applied to the same reserves and to two amounts,
\* the first not above the second.
Reserves == 0 .. MaxReserve
CalcAmounts == 0 .. MaxCalcAmount

InitMath ==
  /\ pools = {}
  /\ balances =
       [k \in TokenIds \X Accounts |->
          IF k[1] \in Tokens /\ k[2] = alice THEN balanceToMint
          ELSE IF k[1] \in Tokens /\ k[2] \in Senders THEN 1
          ELSE 0]
  /\ created = [k \in {{a, b} : a \in Tokens, b \in Tokens} |-> 0]
  /\ lpMinted = [k \in {{a, b} : a \in Tokens, b \in Tokens} |-> 0]
  /\ nOps = 0
  /\ last = [ op |-> "none", sender |-> alice, tokenInId |-> 0, tokenOutId |-> 0,
              amountA |-> 0, amountB |-> 0, status |-> TRUE, message |-> undefined,
              divisionByZero |-> FALSE, negative |-> FALSE,
              pools |-> {}, balances |-> balances ]
  /\ \E tokenInReserve \in Reserves, tokenOutReserve \in Reserves,
        amount1 \in CalcAmounts, amount2 \in CalcAmounts :
       /\ amount1 <= amount2
       /\ calc = [NoCalc EXCEPT !.tokenInReserve = tokenInReserve,
                                !.tokenOutReserve = tokenOutReserve,
                                !.amount1 = amount1, !.amount2 = amount2]

Applied(applied, r1, r2) ==
  /\ calc.applied = "none"
  /\ calc' = [calc EXCEPT !.applied = applied,
                          !.value1 = r1.value, !.value2 = r2.value,
                          !.status1 = r1.ctx.status, !.status2 = r2.ctx.status,
                          !.thrown1 = r1.ctx.divisionByZero,
                          !.thrown2 = r2.ctx.divisionByZero,
                          !.negative = r1.ctx.negative \/ r2.ctx.negative]
  /\ UNCHANGED <<pools, balances, last, created, lpMinted, nOps>>

CalculateTokenOutAmountFromReserves ==
  Applied("calculateTokenOutAmountFromReserves",
          calculateTokenOutAmountFromReserves(
            Context(pools, balances), calc.tokenInReserve, calc.tokenOutReserve,
            calc.amount1),
          calculateTokenOutAmountFromReserves(
            Context(pools, balances), calc.tokenInReserve, calc.tokenOutReserve,
            calc.amount2))

CalculateTokenInAmountFromReserves ==
  Applied("calculateTokenInAmountFromReserves",
          calculateTokenInAmountFromReserves(
            Context(pools, balances), calc.tokenInReserve, calc.tokenOutReserve,
            calc.amount1),
          calculateTokenInAmountFromReserves(
            Context(pools, balances), calc.tokenInReserve, calc.tokenOutReserve,
            calc.amount2))

NextMath ==
  CalculateTokenOutAmountFromReserves \/ CalculateTokenInAmountFromReserves

SpecMath == InitMath /\ [][NextMath]_vars

\* ------------------------------------------------- the last transaction
\* the state the last transaction started from, and what it changed
lastKey == PoolKey_fromTokenIdPair(last.tokenInId, last.tokenOutId)
lastPoolExisted == lastKey \in last.pools
Unchanged == pools = last.pools /\ balances = last.balances
\* the reserves the last transaction read
lastReserveIn == getBalance(last.balances, last.tokenInId, lastKey)
lastReserveOut == getBalance(last.balances, last.tokenOutId, lastKey)
\* by how much the last transaction raised a balance
Delta(tokenId, address) ==
  getBalance(balances, tokenId, address) - getBalance(last.balances, tokenId, address)

\* ----------------------------------------------------------------- claims

\* C1: createPool succeeds at most once per unordered pair {a,b}, a # b; a
\* createPool(a,b) or createPool(b,a) that fails after one succeeded reports
\* "Pool already exists" and changes neither the pools nor a balance.
C1_SingleCreation ==
  /\ \A pair \in DOMAIN created : created[pair] <= 1
  /\ ( /\ last.op = "createPool"
       /\ last.tokenInId # last.tokenOutId
       /\ created[{last.tokenInId, last.tokenOutId}] >= 1
       /\ ~last.status )
     => (last.message = errors.poolExists /\ Unchanged)

\* C1 witness: a createPool for a pair created before has been rejected
C1_Witness ==
  /\ last.op = "createPool"
  /\ last.tokenInId # last.tokenOutId
  /\ created[{last.tokenInId, last.tokenOutId}] = 1
  /\ ~last.status
  /\ last.message = errors.poolExists
  /\ getBalance(last.balances, last.tokenInId, last.sender) >= last.amountA
  /\ getBalance(last.balances, last.tokenOutId, last.sender) >= last.amountB

\* C2: a createPool, sell or buy that fails leaves the pools and every
\* balance as they were before the call; a createPool whose first or second
\* seed transfer lacks funds fails, and so does a buy or sell whose sender
\* cannot pay the amount owed to the pool.
C2_Atomicity ==
  /\ ~last.status => Unchanged
  /\ ( /\ last.op = "createPool"
       /\ \/ getBalance(last.balances, last.tokenInId, last.sender) < last.amountA
          \/ getBalance(last.balances, last.tokenOutId, last.sender) < last.amountB )
     => (~last.status /\ Unchanged)
  /\ ( /\ last.op = "sell"
       /\ getBalance(last.balances, last.tokenInId, last.sender) < last.amountA )
     => (~last.status /\ Unchanged)
  /\ ( /\ last.op = "buy"
       /\ lastPoolExisted
       /\ lastReserveOut > last.amountA
       /\ getBalance(last.balances, last.tokenInId, last.sender)
            < (lastReserveIn * last.amountA) \div (lastReserveOut - last.amountA) )
     => (~last.status /\ Unchanged)

\* C2 witness: a createPool on a new pair whose first seed transfer was
\* covered and whose second was not has failed
C2_Witness ==
  /\ last.op = "createPool"
  /\ last.tokenInId # last.tokenOutId
  /\ ~lastPoolExisted
  /\ last.amountA > 0
  /\ getBalance(last.balances, last.tokenInId, last.sender) >= last.amountA
  /\ getBalance(last.balances, last.tokenOutId, last.sender) < last.amountB
  /\ ~last.status
  /\ last.message = InsufficientBalance

\* C3: a sell or buy for a pair without an existence marker fails with a
\* kind that is not the one createPool reports for an existing pool, and
\* transfers nothing.
C3_PoolDoesNotExist ==
  ( /\ last.op \in {"sell", "buy"}
    /\ ~lastPoolExisted )
  => /\ ~last.status
     /\ last.message # errors.poolExists
     /\ Unchanged

\* C4: no call performs a subtraction with a negative result or a division
\* by zero.
C4_NoUndefinedArithmetic == ~last.divisionByZero /\ ~last.negative

\* C5: a sell that succeeds computed at least minTokenOutAmount from the
\* reserves it started from and credits the sender at least that much; a sell
\* on an existing pool whose computed output is below minTokenOutAmount fails
\* with "Token out amount too low" and changes nothing.
C5_SellSlippage ==
  LET out == (lastReserveOut * last.amountA) \div (lastReserveIn + last.amountA)
  IN  /\ (last.op = "sell" /\ last.status)
         => /\ lastReserveIn + last.amountA > 0
            /\ out >= last.amountB
            /\ Delta(last.tokenOutId, last.sender) >= last.amountB
      /\ ( /\ last.op = "sell"
           /\ lastPoolExisted
           /\ lastReserveIn + last.amountA > 0
           /\ last.amountB > out )
         => /\ ~last.status
            /\ last.message = errors.tokenOutAmountTooLow
            /\ Unchanged

\* C5 witness: a sell with a positive output below the minimum was rejected
C5_Witness ==
  /\ last.op = "sell"
  /\ lastPoolExisted
  /\ lastReserveIn + last.amountA > 0
  /\ (lastReserveOut * last.amountA) \div (lastReserveIn + last.amountA) >= 1
  /\ last.amountB > (lastReserveOut * last.amountA) \div (lastReserveIn + last.amountA)
  /\ getBalance(last.balances, last.tokenInId, last.sender) >= last.amountA
  /\ ~last.status

\* C6: a buy that succeeds computed at most maxTokenInAmount from the
\* reserves it started from and debits the sender at most that much; a buy on
\* an existing pool with a positive denominator whose computed input is above
\* maxTokenInAmount fails with "Token in amount too high" and changes nothing.
C6_BuySlippage ==
  LET denominator == IF lastReserveOut >= last.amountA
                       THEN lastReserveOut - last.amountA
                       ELSE lastReserveOut
      in == (lastReserveIn * last.amountA) \div denominator
  IN  /\ (last.op = "buy" /\ last.status)
         => /\ denominator > 0
            /\ in <= last.amountB
            /\ 0 - Delta(last.tokenInId, last.sender) <= last.amountB
      /\ ( /\ last.op = "buy"
           /\ lastPoolExisted
           /\ denominator > 0
           /\ last.amountB < in )
         => /\ ~last.status
            /\ last.message = errors.tokenInAmountTooHigh
            /\ Unchanged

\* C6 witness: a buy the pool could pay, costing more than the maximum, was
\* rejected
C6_Witness ==
  /\ last.op = "buy"
  /\ lastPoolExisted
  /\ last.amountA >= 1
  /\ lastReserveOut > last.amountA
  /\ last.amountB >= 1
  /\ last.amountB < (lastReserveIn * last.amountA) \div (lastReserveOut - last.amountA)
  /\ ~last.status

\* C7: a sell that succeeds on reserves (reserveIn, reserveOut) moves exactly
\* tokenInAmount of tokenIn from the sender to the pool and exactly
\* floor(reserveOut * tokenInAmount / (reserveIn + tokenInAmount)) of tokenOut
\* from the pool to the sender; on reserves 1000/2000, 100 in gives 181 out.
C7_SellAmounts ==
  /\ (last.op = "sell" /\ last.status)
     => LET out == (lastReserveOut * last.amountA) \div (lastReserveIn + last.amountA)
        IN  /\ lastPoolExisted
            /\ lastReserveIn + last.amountA > 0
            /\ Delta(last.tokenInId, last.sender) = 0 - last.amountA
            /\ Delta(last.tokenOutId, last.sender) = out
            /\ Delta(last.tokenInId, lastKey) = last.amountA
            /\ Delta(last.tokenOutId, lastKey) = 0 - out
  /\ calculateTokenOutAmountFromReserves(Context(pools, balances), 1000, 2000, 100).value
       = 181

\* C7 witness: a sell has succeeded whose output is positive and rounded down
C7_Witness ==
  /\ last.op = "sell"
  /\ last.status
  /\ last.amountA >= 1
  /\ Delta(last.tokenOutId, last.sender) >= 1
  /\ (lastReserveOut * last.amountA) % (lastReserveIn + last.amountA) # 0

\* C8: a buy that succeeds with tokenOutAmount below reserveOut moves exactly
\* tokenOutAmount of tokenOut from the pool to the sender and exactly
\* floor(reserveIn * tokenOutAmount / (reserveOut - tokenOutAmount)) of tokenIn
\* from the sender to the pool, on the reserves the transactions before it
\* left; on reserves 1100/1819, 200 out costs 135 in.
C8_BuyAmounts ==
  /\ (last.op = "buy" /\ last.status /\ last.amountA < lastReserveOut)
     => LET in == (lastReserveIn * last.amountA) \div (lastReserveOut - last.amountA)
        IN  /\ lastPoolExisted
            /\ Delta(last.tokenOutId, last.sender) = last.amountA
            /\ Delta(last.tokenInId, last.sender) = 0 - in
            /\ Delta(last.tokenOutId, lastKey) = 0 - last.amountA
            /\ Delta(last.tokenInId, lastKey) = in
  /\ calculateTokenInAmountFromReserves(Context(pools, balances), 1100, 1819, 200).value
       = 135

\* C8 witness: as the third transaction, after a createPool and a swap, a buy
\* below the reserve has succeeded at a positive price
C8_Witness ==
  /\ last.op = "buy"
  /\ last.status
  /\ nOps = 3
  /\ last.amountA >= 1
  /\ last.amountA < lastReserveOut
  /\ Delta(last.tokenInId, last.sender) <= 0 - 1

\* C9: a createPool that succeeds inserts the marker of the pair, moves
\* exactly tokenInAmount of tokenIn and tokenOutAmount of tokenOut from the
\* sender to the pool account, and mints exactly tokenInAmount of the pair's
\* LP token to the sender.
C9_CreatePoolEffects ==
  (last.op = "createPool" /\ last.status)
  => LET lpTokenId == LPTokenId_fromTokenIdPair(last.tokenInId, last.tokenOutId)
     IN  /\ last.tokenInId # last.tokenOutId
         /\ ~lastPoolExisted
         /\ pools = last.pools \cup {lastKey}
         /\ Delta(last.tokenInId, last.sender) = 0 - last.amountA
         /\ Delta(last.tokenOutId, last.sender) = 0 - last.amountB
         /\ Delta(last.tokenInId, lastKey) = last.amountA
         /\ Delta(last.tokenOutId, lastKey) = last.amountB
         /\ Delta(lpTokenId, last.sender) = last.amountA
         /\ \A a \in Accounts \ {last.sender} : Delta(lpTokenId, a) = 0

\* C9 witness: a createPool with two different positive seeds has succeeded
C9_Witness ==
  /\ last.op = "createPool"
  /\ last.status
  /\ last.amountA >= 1
  /\ last.amountB >= 1
  /\ last.amountA # last.amountB
  /\ lastKey \in pools

\* C10: createPool(a, a, x, y) fails with "Cannot create pool with matching
\* tokens" and changes neither the pools nor a balance.
C10_NoSelfPool ==
  (last.op = "createPool" /\ last.tokenInId = last.tokenOutId)
  => /\ ~last.status
     /\ last.message = errors.tokensMatch
     /\ Unchanged

\* C10 witness: a createPool of a token with itself, with seeds the sender
\* holds, has been rejected
C10_Witness ==
  /\ last.op = "createPool"
  /\ last.tokenInId = last.tokenOutId
  /\ last.amountA >= 1
  /\ last.amountB >= 1
  /\ getBalance(last.balances, last.tokenInId, last.sender)
       >= last.amountA + last.amountB
  /\ ~last.status

\* ------------------------------------------------------------------ C12
\* C12: for fixed reserves the amount calculateTokenInAmountFromReserves
\* computes does not decrease when the requested tokenOutAmount grows: of two
\* requests on the same reserves that both pass the function's check, the
\* smaller request is never priced above the larger, whichever of the two
\* branches (reserve sufficient, reserve padded) each one takes.  The code
\* does not keep this across the two branches.
C12_BuyMonotone ==
  ( /\ calc.applied = "calculateTokenInAmountFromReserves"
    /\ calc.status1 /\ calc.status2
    /\ ~calc.thrown1 /\ ~calc.thrown2 )
  => calc.value1 <= calc.value2

\* ------------------------------------------------------------------ C13
\* C13: for fixed reserves the amount calculateTokenOutAmountFromReserves
\* computes does not decrease when tokenInAmount grows, for every two amounts
\* whose denominator tokenInReserve + tokenInAmount is not zero.
C13_SellMonotone ==
  ( /\ calc.applied = "calculateTokenOutAmountFromReserves"
    /\ calc.tokenInReserve + calc.amount1 > 0 )
  => /\ ~calc.thrown1 /\ ~calc.thrown2
     /\ calc.value1 <= calc.value2

\* two amounts on reserves that are both positive, the larger one bought more
C13_Witness ==
  /\ calc.applied = "calculateTokenOutAmountFromReserves"
  /\ calc.tokenInReserve > 0 /\ calc.tokenOutReserve > 0
  /\ 0 < calc.amount1 /\ calc.amount1 < calc.amount2
  /\ 0 < calc.value1 /\ calc.value1 < calc.value2

\* ------------------------------------------------------------------ C11
\* C11: for distinct token ids a, b, TokenPair.from(a, b) and
\* TokenPair.from(b, a) are the same pair with the larger id first, so the
\* pool account and the LP token of (a, b) are those of (b, a); and once a
\* pool of the two tokens of a sell or buy has been created, in whichever
\* order createPool was given them, the call finds that pool under the key of
\* its own order and of the opposite order, and is not refused for the
\* pool's existence.
C11_CanonicalIdentity ==
  /\ \A a \in Tokens3, b \in Tokens3 :
       a # b =>
         /\ TokenPair_from(a, b) = TokenPair_from(b, a)
         /\ TokenPair_from(a, b)[1] > TokenPair_from(a, b)[2]
         /\ TokenPair_from(a, b)[1] \in {a, b}
         /\ TokenPair_from(a, b)[2] \in {a, b}
         /\ PoolKey_fromTokenIdPair(a, b) = PoolKey_fromTokenIdPair(b, a)
         /\ LPTokenId_fromTokenIdPair(a, b) = LPTokenId_fromTokenIdPair(b, a)
  /\ ( /\ last.op \in {"sell", "buy"}
       /\ last.tokenInId # last.tokenOutId
       /\ created[{last.tokenInId, last.tokenOutId}] >= 1 )
     => /\ lastKey \in last.pools
        /\ PoolKey_fromTokenIdPair(last.tokenOutId, last.tokenInId) \in last.pools
        /\ last.message # errors.poolExists

\* a sell of the smaller id into a pool that createPool was given with the
\* larger id as tokenIn: the reserve the sell pays from is the tokenIn seed
\* of the creation (the LP amount), the reserve it pays into is the other
C11_Witness ==
  /\ nOps = 2
  /\ last.op = "sell" /\ last.status
  /\ last.tokenInId < last.tokenOutId
  /\ created[{last.tokenInId, last.tokenOutId}] = 1
  /\ lastReserveOut = lpMinted[{last.tokenInId, last.tokenOutId}]
  /\ lastReserveIn # lastReserveOut

\* ------------------------------------------------------------------ C14
\* C14: on an existing pool, the check inside buy's computation of the
\* amount to pay fails exactly when the requested amount equals the tokenOut
\* reserve or that reserve is zero, which is when the clamped denominator is
\* zero.  Then the division is by 1 (the value is the numerator, nothing is
\* thrown), the check itself names none of the other error kinds, the buy
\* fails and applies no transfer.  In every other case the denominator is
\* positive and the check passes.
C14_InvariantViolation ==
  (last.op = "buy" /\ lastPoolExisted)
  => LET r == calculateTokenInAmountFromReserves(
                Context(last.pools, last.balances),
                lastReserveIn, lastReserveOut, last.amountA)
         safeReserveOut ==
           IF lastReserveOut >= last.amountA
             THEN lastReserveOut
             ELSE lastReserveOut + last.amountA
         isZero == last.amountA = lastReserveOut \/ lastReserveOut = 0
     IN  /\ isZero <=> (safeReserveOut - last.amountA = 0)
         /\ isZero <=> ~r.ctx.status
         /\ ~isZero => safeReserveOut - last.amountA > 0
         /\ ~r.ctx.divisionByZero /\ ~last.divisionByZero
         /\ r.ctx.message = undefined
         /\ isZero => /\ r.value = lastReserveIn * last.amountA
                      /\ ~last.status
                      /\ Unchanged

\* a buy of the whole tokenOut reserve of a funded pool, at a maximum that
\* covers the numerator: the denominator check is the only one that fails
C14_Witness ==
  /\ last.op = "buy" /\ lastPoolExisted
  /\ lastReserveIn > 0 /\ lastReserveOut > 0
  /\ last.amountA = lastReserveOut
  /\ lastReserveIn * last.amountA <= last.amountB
  /\ getBalance(last.balances, last.tokenInId, last.sender) >= last.amountB
  /\ ~last.status /\ last.message = undefined
  /\ Unchanged

\* ------------------------------------------------------------------ C15
\* C15: no step removes the existence marker of a pool, and the only step
\* that adds one is a successful createPool, which adds the marker of its own
\* pair and no other: a pair goes from not existing to existing and stays
\* there through every later createPool, sell and buy.
C15_PoolsPermanent ==
  [][ /\ pools \subseteq pools'
      /\ pools' # pools =>
           /\ last'.op = "createPool" /\ last'.status
           /\ PoolKey_fromTokenIdPair(last'.tokenInId, last'.tokenOutId) \notin pools
           /\ pools' = pools \cup
                {PoolKey_fromTokenIdPair(last'.tokenInId, last'.tokenOutId)} ]_vars

\* a trade that moved balances on a pool created earlier: the marker is there
\* before and after it
C15_Witness ==
  /\ nOps = 2
  /\ last.op \in {"sell", "buy"} /\ last.status
  /\ lastKey \in last.pools /\ lastKey \in pools
  /\ balances # last.balances

\* ------------------------------------------------------------------ C16
\* C16: a successful buy on an existing pool does not lower the product of
\* the pool's two reserves, (reserveIn + amountIn) * (reserveOut - amountOut)
\* >= reserveIn * reserveOut, and a successful buy of a positive amount from
\* a pool whose tokenIn reserve is positive costs more than nothing.  The
\* amount charged is rounded down, and the code keeps neither.
C16_ConstantProductBuy ==
  (last.op = "buy" /\ last.status /\ lastPoolExisted)
  => LET amountIn == Delta(last.tokenInId, lastKey)
         reserveInAfter == getBalance(balances, last.tokenInId, lastKey)
         reserveOutAfter == getBalance(balances, last.tokenOutId, lastKey)
     IN  /\ reserveInAfter = lastReserveIn + amountIn
         /\ reserveOutAfter = lastReserveOut - last.amountA
         /\ reserveInAfter * reserveOutAfter >= lastReserveIn * lastReserveOut
         /\ (last.amountA > 0 /\ lastReserveIn > 0) => amountIn > 0

\* ------------------------------------------------------------------ C17
\* C17: a successful sell on an existing pool does not lower the product of
\* the pool's two reserves: (reserveIn + amountIn) * (reserveOut - amountOut)
\* >= reserveIn * reserveOut.
C17_ConstantProductSell ==
  (last.op = "sell" /\ last.status /\ lastPoolExisted)
  => LET amountOut == 0 - Delta(last.tokenOutId, lastKey)
         reserveInAfter == getBalance(balances, last.tokenInId, lastKey)
         reserveOutAfter == getBalance(balances, last.tokenOutId, lastKey)
     IN  /\ reserveInAfter = lastReserveIn + last.amountA
         /\ reserveOutAfter = lastReserveOut - amountOut
         /\ reserveInAfter * reserveOutAfter >= lastReserveIn * lastReserveOut

\* a sell that was paid something, the product strictly above what it was
C17_Witness ==
  /\ last.op = "sell" /\ last.status /\ lastPoolExisted
  /\ last.amountA > 0
  /\ Delta(last.tokenOutId, lastKey) < 0
  /\ getBalance(balances, last.tokenInId, lastKey)
       * getBalance(balances, last.tokenOutId, lastKey)
     > lastReserveIn * lastReserveOut

\* ------------------------------------------------------------------ C18
\* C18: a buy of more tokenOut than the pool holds never succeeds and applies
\* nothing; where the padded price passes the denominator check and the
\* maximum, the failure is the InsufficientBalance of the transfer from the
\* pool to the sender.  No successful sell or buy pays out more than the
\* tokenOut reserve it found, and no balance is ever below zero.
C18_InsufficientLiquidity ==
  /\ ( /\ last.op = "buy" /\ lastPoolExisted
       /\ last.amountA > lastReserveOut )
     => /\ ~last.status
        /\ Unchanged
        /\ ( /\ lastReserveOut > 0
             /\ (lastReserveIn * last.amountA) \div lastReserveOut <= last.amountB )
           => last.message = InsufficientBalance
  /\ (last.op \in {"sell", "buy"} /\ last.status)
     => 0 - Delta(last.tokenOutId, lastKey) <= lastReserveOut
  /\ \A k \in DOMAIN balances : balances[k] >= 0

\* a buy of more than a funded pool holds, at a maximum that covers the
\* padded price and that the sender can pay: refused by the ledger
C18_Witness ==
  /\ last.op = "buy" /\ lastPoolExisted
  /\ lastReserveIn > 0 /\ lastReserveOut > 0
  /\ last.amountA > lastReserveOut
  /\ (lastReserveIn * last.amountA) \div lastReserveOut <= last.amountB
  /\ getBalance(last.balances, last.tokenInId, last.sender) >= last.amountB
  /\ ~last.status /\ last.message = InsufficientBalance
  /\ Unchanged

\* ------------------------------------------------------------------ C19
\* the sum of the balances of the keys in S
RECURSIVE SumOver(_, _)
SumOver(b, S) ==
  IF S = {}
    THEN 0
    ELSE LET k == CHOOSE x \in S : TRUE
         IN  b[k] + SumOver(b, S \ {k})

\* the total supply of a token: its balances over all accounts, pools included
totalSupply(b, tokenId) == SumOver(b, {k \in DOMAIN b : k[1] = tokenId})

\* C19: no createPool, sell or buy changes the total supply of a token that
\* is not an LP token; the total supply of a pair's LP token is 0 while the
\* pair has no pool and, from the creation on, the tokenIn seed of the
\* createPool that created it.
C19_TokenConservation ==
  /\ \A t \in Tokens : totalSupply(balances, t) = totalSupply(last.balances, t)
  /\ \A t \in Tokens : totalSupply(balances, t) = balanceToMint + 1
  /\ \A a \in Tokens, b \in Tokens :
       LET lpTokenId == LPTokenId_fromTokenIdPair(a, b)
           exists == PoolKey_fromTokenIdPair(a, b) \in pools
       IN  /\ exists <=> created[{a, b}] >= 1
           /\ totalSupply(balances, lpTokenId) =
                IF exists THEN lpMinted[{a, b}] ELSE 0

\* a pool created with different seeds and traded on since: the LP supply is
\* still the tokenIn seed, and the trade moved the tokens it left in total
C19_Witness ==
  /\ last.op \in {"sell", "buy"} /\ last.status /\ lastPoolExisted
  /\ balances # last.balances
  /\ lpMinted[{last.tokenInId, last.tokenOutId}] > 0
  /\ totalSupply(balances, LPTokenId_fromTokenIdPair(last.tokenInId, last.tokenOutId))
       = lpMinted[{last.tokenInId, last.tokenOutId}]
  /\ totalSupply(balances, last.tokenOutId) = totalSupply(last.balances, last.tokenOutId)

\* ------------------------------------------------------------------ C20
\* C20: a createPool, sell or buy by a sender on tokens a and b changes no
\* balance other than those of a and of b held by the sender and by the pool
\* account of the pair and, for createPool, the sender's balance of the
\* pair's LP token; it changes no existence marker other than, for
\* createPool, that of the pair.  The balances of every other account and of
\* every other token, the reserves of the other pools among them, and all
\* other markers are as before the call.
C20_Frame ==
  last.op # "none"
  => /\ \A k \in DOMAIN balances :
          balances[k] # last.balances[k]
          => \/ /\ k[1] \in {last.tokenInId, last.tokenOutId}
                /\ k[2] \in {last.sender, lastKey}
             \/ /\ last.op = "createPool"
                /\ k = <<LPTokenId_fromTokenIdPair(last.tokenInId, last.tokenOutId),
                         last.sender>>
     /\ \A p \in PoolKeys3 :
          ((p \in pools) # (p \in last.pools))
          => last.op = "createPool" /\ p = lastKey

\* a trade that moved both reserves of one pool while another pool, sharing
\* a token with it, holds reserves: those reserves are what they were
C20_Witness ==
  /\ last.op \in {"sell", "buy"} /\ last.status
  /\ Delta(last.tokenInId, lastKey) > 0
  /\ Delta(last.tokenOutId, lastKey) < 0
  /\ \E p \in last.pools :
       /\ p # lastKey
       /\ \E t \in {last.tokenInId, last.tokenOutId} :
            /\ getBalance(last.balances, t, p) > 0
            /\ getBalance(balances, t, p) = getBalance(last.balances, t, p)

====
